---- MODULE Spec2Model ----
(***************************************************************************)
(* Model of nengo_ocl/clra_nonlinearities.py: the kernel template          *)
(* (_plan_template) with its two dispatch strategies, the Python-side      *)
(* layout resolution / argument binding, and the LIF update rule           *)
(* (plan_lif).                                                             *)
(*                                                                         *)
(* Three specifications share the module:                                  *)
(*   SpecKernel  - the generated kernel run by its work items, first the   *)
(*                 Blocked plan (n_elements = 0), then a Flattened plan    *)
(*                 (n_elements >= 1) on the same inputs;                   *)
(*   SpecBuild   - one call of _plan_template, step by step;               *)
(*   SpecLif     - MaxSteps LIF steps under a constant current, the        *)
(*                 outputs fed back as the next inputs;                    *)
(*   SpecLifFair - the same element stepped for ever;                      *)
(*   SpecLifAny  - LIF steps with any current at each step, from any       *)
(*                 voltage at or below the threshold.                      *)
(***************************************************************************)
EXTENDS Integers, Sequences, FiniteSets, Bags, TLC

\* ------------------------------------------------------------------ bounds
MaxN == 3

MaxLen == 2

MaxChunk == 3

MaxSteps == 400

MaxStepsAny == 5

\* ------------------------------------------------------------------ state
VARIABLES
    \* --- kernel execution
    lengths,      \* base.cl_shape0s: group index (0-based) -> element count
    n_elements,   \* n_elements of the plan being run (0 = Blocked)
    phase,        \* "blocked" | "flat" | "off"
    bdone,        \* Blocked grid points <<m, n>> whose work item has run
    outB,         \* output buffer of the Blocked plan
    writesB,      \* bag of buffer positions written by Blocked work items
    fdone,        \* Flattened work items (gid) that have returned
    item,         \* registers of the running Flattened work item
    outF,         \* output buffer of the Flattened plan
    writesF,      \* bag of buffer positions accessed by Flattened items
    lenReads      \* indices n at which a Flattened item has read lengths[n]

kvars == <<lengths, n_elements, phase, bdone, outB, writesB, fdone, item,
           outF, writesF, lenReads>>

VARIABLES
    \* --- one call of _plan_template
    inputs,       \* argument dicts of the call
    outputs,
    parameters,
    b_nel,        \* argument n_elements of the call
    bpc,          \* position in _plan_template
    berr,         \* exception that ended the call ("none" while running)
    base,         \* inputs.values()[0]
    sparams,      \* static parameters
    uparams,      \* parameters that are ragged arrays
    ivars,
    ovars,
    avars,        \* ivars.items() + ovars.items()
    variables,    \* names entered into the variables table
    signature,    \* variables of the generated kernel's parameter list
    full_args,    \* variables whose (starts, buf) were bound, in order
    gsize,        \* global work size of the plan
    kernels       \* number of kernels compiled by the call

bvars == <<inputs, outputs, parameters, b_nel, bpc, berr, base, sparams,
           uparams, ivars, ovars, avars, variables, signature, full_args,
           gsize, kernels>>

VARIABLES
    \* --- repeated invocation of the lif_step plan on one element
    lmode,        \* "const" | "any" | "off"
    lj,           \* input current of the element
    lv,           \* voltage (ov of the last step)
    lw,           \* refractory time (ow of the last step)
    los,          \* os of the last step
    lk,           \* number of steps taken
    llast,        \* inputs and scratch variables of the last step
    ltick         \* alternates with every invocation of the plan

lvars == <<lmode, lj, lv, lw, los, lk, llast, ltick>>

vars == <<kvars, bvars, lvars>>

\* ------------------------------------------------------------ kernel data
N == Cardinality(DOMAIN lengths)

RECURSIVE SumTo(_, _)
SumTo(f, n) == IF n = 0 THEN 0 ELSE f[n - 1] + SumTo(f, n - 1)

Total == SumTo(lengths, N)

MaxOf(f) ==
    IF DOMAIN f = {} THEN 0
    ELSE CHOOSE x \in {f[i] : i \in DOMAIN f} : \A i \in DOMAIN f : f[i] <= x

\* <name>_starts[n]: groups laid out back to back in the flat buffer
Starts(n) == SumTo(lengths, n)

BufSize == Total

\* contents of the (read-only) input buffer and the update-rule body
InBuf(p) == p + 1

Core(x) == 2 * x + 10

Unwritten == 0

GarbageVals == {0, 7}

BufRead(p) == IF p \in 0 .. (BufSize - 1) THEN {InBuf(p)} ELSE GarbageVals

BufWrite(buf, p, y) ==
    IF p \in 0 .. (BufSize - 1) THEN [buf EXCEPT ![p] = y] ELSE buf

CeilDiv(a, b) == (a + b - 1) \div b

GsizeBlocked == <<MaxOf(lengths), N>>

GsizeFlat == CeilDiv(Total, n_elements)

BlockedGrid ==
    {<<m, n>> : m \in 0 .. (GsizeBlocked[1] - 1), n \in 0 .. (GsizeBlocked[2] - 1)}

Idle == [pc |-> "idle", gid |-> 0, m |-> 0, n |-> 0, ii |-> 0, cur |-> 0]

\* ------------------------------------------------------- Blocked strategy
\* variant with the bound check off by one: if (m > M) return;
BlockedActive_offByOne(m, n) == m <= lengths[n]

\* const int M = lengths[n]; if (m >= M) return;
BlockedActive(m, n) == m < lengths[n]

BlockedItem(m, n) ==
    /\ phase = "blocked"
    /\ <<m, n>> \in BlockedGrid \ bdone
    /\ bdone' = bdone \cup {<<m, n>>}
    /\ IF BlockedActive(m, n)
       THEN \E x \in BufRead(Starts(n) + m) :
              /\ outB' = BufWrite(outB, Starts(n) + m, Core(x))
              /\ writesB' = writesB (+) SetToBag({Starts(n) + m})
       ELSE UNCHANGED <<outB, writesB>>
    /\ UNCHANGED <<lengths, n_elements, phase, fdone, item, outF, writesF,
                   lenReads>>
    /\ UNCHANGED <<bvars, lvars>>

BlockedComplete == bdone = BlockedGrid

\* the same inputs are then given to a plan built with n_elements = c
PlanFlattened(c) ==
    /\ phase = "blocked"
    /\ BlockedComplete
    /\ n_elements' = c
    /\ phase' = "flat"
    /\ UNCHANGED <<lengths, bdone, outB, writesB, fdone, item, outF, writesF,
                   lenReads>>
    /\ UNCHANGED <<bvars, lvars>>

\* ----------------------------------------------------- Flattened strategy
BigLen == MaxN * MaxLen + MaxChunk * (MaxN * MaxLen + 1)

\* value obtained by the kernel for lengths[n]
LenRead(n) == IF n \in DOMAIN lengths THEN {lengths[n]} ELSE {0, BigLen}

\* const int gid = get_global_id(0); int m = gid * n_elements, n = 0;
FlatBegin(gid) ==
    /\ phase = "flat"
    /\ item.pc = "idle"
    /\ gid \in (0 .. (GsizeFlat - 1)) \ fdone
    /\ item' = [pc |-> "walk", gid |-> gid, m |-> gid * n_elements, n |-> 0,
                ii |-> 0, cur |-> 0]
    /\ UNCHANGED <<lengths, n_elements, phase, bdone, outB, writesB, fdone,
                   outF, writesF, lenReads>>
    /\ UNCHANGED <<bvars, lvars>>

Return == /\ fdone' = fdone \cup {item.gid}
          /\ item' = Idle

\* while (m >= lengths[n]) { m -= lengths[n]; n++; }  if (n >= N) return;
FlatWalk ==
    /\ phase = "flat"
    /\ item.pc = "walk"
    /\ item.n <= N + 1
    /\ lenReads' = lenReads \cup {item.n}
    /\ \E L \in LenRead(item.n) :
         IF item.m >= L
         THEN /\ item' = [item EXCEPT !.m = item.m - L, !.n = item.n + 1]
              /\ UNCHANGED fdone
         ELSE IF item.n >= N
              THEN Return
              ELSE /\ item' = [item EXCEPT !.pc = "iter",
                                           !.cur = Starts(item.n) + item.m]
                   /\ UNCHANGED fdone
    /\ UNCHANGED <<lengths, n_elements, phase, bdone, outB, writesB, outF,
                   writesF>>
    /\ UNCHANGED <<bvars, lvars>>

\* m++; if (m >= lengths[n]) { n++; m = 0; if (n >= N) return; cur = in + starts[n]; }
\* else cur++;
FlatAdvance ==
    /\ lenReads' = lenReads \cup {item.n}
    /\ \E L \in LenRead(item.n) :
         IF item.m + 1 >= L
         THEN IF item.n + 1 >= N
              THEN Return
              ELSE /\ item' = [item EXCEPT !.m = 0, !.n = item.n + 1,
                                           !.ii = item.ii + 1,
                                           !.cur = Starts(item.n + 1)]
                   /\ UNCHANGED fdone
         ELSE /\ item' = [item EXCEPT !.m = item.m + 1, !.ii = item.ii + 1,
                                      !.cur = item.cur + 1]
              /\ UNCHANGED fdone

\* LOOP ITERATION ii: name = *cur_name; core_text; *cur_name = name; advance
FlatIter ==
    /\ phase = "flat"
    /\ item.pc = "iter"
    /\ \E x \in BufRead(item.cur) :
         outF' = BufWrite(outF, item.cur, Core(x))
    /\ writesF' = writesF (+) SetToBag({item.cur})
    /\ IF item.ii + 1 < n_elements
       THEN FlatAdvance
       ELSE Return /\ UNCHANGED lenReads
    /\ UNCHANGED <<lengths, n_elements, phase, bdone, outB, writesB>>
    /\ UNCHANGED <<bvars, lvars>>

FlatComplete ==
    /\ phase = "flat"
    /\ item.pc = "idle"
    /\ fdone = 0 .. (GsizeFlat - 1)

\* ------------------------------------------------- Python 2 dictionaries
\* A dict is a hash table of 8 slots (no resize below 6 entries); items(),
\* keys() and values() list the occupied slots in slot order.
Empty == ""

TableSize == 8

\* hash(name) of the variable names used below, low 20 bits
NameHash ==
    [k \in {"v", "f", "ov", "tau"} |->
        CASE k = "v" -> 356727
          [] k = "f" -> 219495
          [] k = "ov" -> 323321
          [] k = "tau" -> 522625]

EmptyDict == [slots |-> [i \in 0 .. (TableSize - 1) |-> Empty], val |-> <<>>]

\* lookdict: i = hash & mask; then i = (i << 2) + i + perturb + 1, perturb >>= 5
RECURSIVE Probe(_, _, _, _)
Probe(slots, key, i, perturb) ==
    IF slots[i % TableSize] = Empty \/ slots[i % TableSize] = key
    THEN i % TableSize
    ELSE Probe(slots, key, (5 * i + perturb + 1) % TableSize, perturb \div 32)

DictSet(d, key, value) ==
    LET s == Probe(d.slots, key, NameHash[key] % TableSize, NameHash[key])
    IN  [slots |-> [d.slots EXCEPT ![s] = key],
         val |-> (key :> value) @@ d.val]

RECURSIVE ItemsFrom(_, _)
ItemsFrom(d, i) ==
    IF i = TableSize THEN <<>>
    ELSE IF d.slots[i] = Empty THEN ItemsFrom(d, i + 1)
         ELSE <<<<d.slots[i], d.val[d.slots[i]]>>>> \o ItemsFrom(d, i + 1)

Items(d) == ItemsFrom(d, 0)

Keys(d) == [i \in 1 .. Len(Items(d)) |-> Items(d)[i][1]]

KeySet(d) == {d.slots[i] : i \in 0 .. (TableSize - 1)} \ {Empty}

\* dict(sequence of pairs), dict(other dict), dict(k1=..., k2=...)
RECURSIVE DictOf(_)
DictOf(pairs) ==
    IF pairs = <<>> THEN EmptyDict
    ELSE LET n == Len(pairs)
         IN  DictSet(DictOf(SubSeq(pairs, 1, n - 1)), pairs[n][1], pairs[n][2])

\* -------------------------------------------------------- ragged arrays
Ragged(s0, s1) == [kind |-> "ragged", shape0s |-> s0, shape1s |-> s1]

CGood == Ragged(<<2, 1>>, <<1, 1>>)

CLen == Ragged(<<2, 2>>, <<1, 1>>)

CCnt == Ragged(<<2>>, <<1>>)

CMat == Ragged(<<2, 1>>, <<1, 3>>)

Scalar == [kind |-> "scalar", shape0s |-> <<>>, shape1s |-> <<>>]

NoBase == [kind |-> "none", shape0s |-> <<>>, shape1s |-> <<>>]

\* equal_arrays(a, b) for two arrays of the same length
equal_arrays(a, b) == \A i \in 1 .. Len(a) : a[i] = b[i]

AllOnes(s) == [i \in 1 .. Len(s) |-> 1]

RECURSIVE SeqSum(_)
SeqSum(s) == IF s = <<>> THEN 0 ELSE Head(s) + SeqSum(Tail(s))

SeqMax(s) == CHOOSE x \in {s[i] : i \in 1 .. Len(s)} : \A i \in 1 .. Len(s) : s[i] <= x

\* --------------------------------------------------------- _plan_template
\* base = inputs.values()[0]; N = len(base); split parameters
Classify ==
    /\ bpc = "call"
    /\ IF Items(inputs) = <<>>
       THEN /\ bpc' = "failed"
            /\ berr' = "IndexError"
            /\ UNCHANGED <<base, sparams, uparams>>
       ELSE /\ bpc' = "classified"
            /\ base' = Items(inputs)[1][2]
            /\ uparams' = DictOf(SelectSeq(Items(parameters),
                                 LAMBDA kv : kv[2].kind = "ragged"))
            /\ sparams' = DictOf(SelectSeq(Items(parameters),
                                 LAMBDA kv : kv[2].kind # "ragged"))
            /\ UNCHANGED berr
    /\ UNCHANGED <<inputs, outputs, parameters, b_nel, ivars, ovars, avars,
                   variables, signature, full_args, gsize, kernels>>
    /\ UNCHANGED <<kvars, lvars>>

\* the asserts of the loop over avars, for one entry
ShapeOk(v) ==
    /\ Len(v.shape0s) = Len(base.shape0s)
    /\ equal_arrays(v.shape0s, base.shape0s)
    /\ equal_arrays(v.shape1s, AllOnes(v.shape1s))

\* for vname, v in avars: assert vname not in variables, ...
RECURSIVE CheckLoop(_, _, _)
CheckLoop(av, i, seen) ==
    IF i > Len(av) THEN "none"
    ELSE IF av[i][1] \in seen THEN "AssertionError: Name clash"
    ELSE IF ~ShapeOk(av[i][2]) THEN "AssertionError"
    ELSE CheckLoop(av, i + 1, seen \cup {av[i][1]})

\* ivars = dict(inputs.items() + uparams.items()); ovars = dict(outputs);
\* avars = ivars.items() + ovars.items(); the validation loop
Resolve ==
    /\ bpc = "classified"
    /\ LET iv == DictOf(Items(inputs) \o Items(uparams))
           ov == DictOf(Items(outputs))
           av == Items(iv) \o Items(ov)
           e == CheckLoop(av, 1, {})
       IN  /\ ivars' = iv
           /\ ovars' = ov
           /\ avars' = av
           /\ berr' = e
           /\ IF e = "none"
              THEN /\ bpc' = "resolved"
                   /\ variables' = {av[i][1] : i \in 1 .. Len(av)}
              ELSE /\ bpc' = "failed"
                   /\ UNCHANGED variables
    /\ UNCHANGED <<inputs, outputs, parameters, b_nel, base, sparams, uparams,
                   signature, full_args, gsize, kernels>>
    /\ UNCHANGED <<kvars, lvars>>

\* ivariables = dict((k, variables[k]) for k in ivars.keys()), same for
\* ovariables; the kernel signature lists ivariables.items(), then
\* ovariables.items(), then lengths
Generate ==
    /\ bpc = "resolved"
    /\ LET ivariables == DictOf(Items(ivars))
           ovariables == DictOf(Items(ovars))
       IN  signature' = Keys(ivariables) \o Keys(ovariables) \o <<"lengths">>
    /\ bpc' = "generated"
    /\ UNCHANGED <<inputs, outputs, parameters, b_nel, berr, base, sparams,
                   uparams, ivars, ovars, avars, variables, full_args, gsize,
                   kernels>>
    /\ UNCHANGED <<kvars, lvars>>

\* a static parameter is declared in the kernel body next to the variables
Redeclared == KeySet(sparams) \cap variables # {}

\* gsize; _fn = cl.Program(queue.context, text).build().fn
Compile ==
    /\ bpc = "generated"
    /\ gsize' = IF b_nel > 0
                THEN <<CeilDiv(SeqSum(base.shape0s), b_nel)>>
                ELSE <<SeqMax(base.shape0s), Len(base.shape0s)>>
    /\ IF Redeclared
       THEN /\ bpc' = "failed"
            /\ berr' = "BuildError"
            /\ UNCHANGED kernels
       ELSE /\ bpc' = "compiled"
            /\ kernels' = kernels + 1
            /\ UNCHANGED berr
    /\ UNCHANGED <<inputs, outputs, parameters, b_nel, base, sparams, uparams,
                   ivars, ovars, avars, variables, signature, full_args>>
    /\ UNCHANGED <<kvars, lvars>>

\* for name, v in avars: full_args.extend([v.cl_starts, v.cl_buf]);
\* full_args.append(base.cl_shape0s); set_args; return Plan(...)
Bind ==
    /\ bpc = "compiled"
    /\ full_args' = [i \in 1 .. Len(avars) |-> avars[i][1]] \o <<"lengths">>
    /\ bpc' = "returned"
    /\ UNCHANGED <<inputs, outputs, parameters, b_nel, berr, base, sparams,
                   uparams, ivars, ovars, avars, variables, signature, gsize,
                   kernels>>
    /\ UNCHANGED <<kvars, lvars>>

\* ---------------------------------------------------------------- plan_lif
\* Voltages, currents and times are scalars of finite precision: a value x
\* is held as the integer round(x * Scale).  The right-hand side of an
\* assignment is evaluated and then rounded to the nearest value the
\* assigned variable can hold.
Scale == 20000

RoundDiv(a, b) ==
    IF b > 0 THEN (2 * a + b) \div (2 * b) ELSE (b - 2 * a) \div (-2 * b)

\* textconf = dict(dt=dt, dt_inv=1. / dt, V_threshold=1.) with dt = 0.001;
\* parameters tau = 0.02, ref = 0.002
dt == Scale \div 1000

dt_inv == Scale \div dt

V_threshold == Scale

tau == Scale \div 50

ref == Scale \div 500

\* result of a division by zero (inf or NaN): compares false with everything
NonFinite == -(Scale * Scale)

\* dV = (dt / tau) * (j - v)
LifDV(jj, vv) == RoundDiv(dt * (jj - vv), tau)

\* v += dV; if (v < 0 || w > 2*dt) v = 0; else if (w > dt) v *= 1.0 - (w - dt) * dt_inv
LifV(jj, vv, ww) ==
    LET v1 == vv + LifDV(jj, vv)
    IN  IF v1 < 0 \/ (ww # NonFinite /\ ww > 2 * dt) THEN 0
        ELSE IF ww # NonFinite /\ ww > dt
             THEN RoundDiv(v1 * (Scale - (ww - dt) * dt_inv), Scale)
             ELSE v1

\* spiked = v > V_threshold
Spiked(vup) == vup > V_threshold

\* overshoot = dt * (v - V_threshold) / dV
Overshoot(vup, dV) ==
    IF dV = 0 THEN NonFinite ELSE RoundDiv(dt * (vup - V_threshold), dV)

\* variant that forgets the current step: w = ref - overshoot
SpikeW_noDt(overshoot) ==
    IF overshoot = NonFinite THEN NonFinite ELSE ref - overshoot

\* w = ref - overshoot + dt
SpikeW(overshoot) ==
    IF overshoot = NonFinite THEN NonFinite ELSE ref - overshoot + dt

\* variant that stops the countdown at zero
DecayW_clamped(ww) ==
    IF ww = NonFinite THEN NonFinite ELSE IF ww <= 0 THEN 0 ELSE ww - dt

\* w -= dt
DecayW(ww) == IF ww = NonFinite THEN NonFinite ELSE ww - dt

\* variant without the reset of the spike branch
LifOV_noReset(vup) == vup

\* v = 0.0 in the spike branch; ov = v
LifOV(vup) == IF Spiked(vup) THEN 0 ELSE vup

LifOW(vup, dV, ww) ==
    IF Spiked(vup) THEN SpikeW(Overshoot(vup, dV)) ELSE DecayW(ww)

\* os = (spiked) ? 1.0f : 0.0f
LifOS(vup) == IF Spiked(vup) THEN 1 ELSE 0

\* input currents, initial voltages and refractory times tried
JConst == {0, V_threshold, V_threshold + 1, V_threshold + 10,
           V_threshold + V_threshold \div 2, 2 * V_threshold, 21 * V_threshold}

JAny == {-V_threshold, 0, V_threshold, V_threshold + V_threshold \div 2,
         21 * V_threshold}

VInit == {-(V_threshold \div 2), 0, V_threshold - 1, V_threshold}

WInit == {-dt, 0, dt + dt \div 2, 2 * dt, 3 * dt}

NoStep == [j |-> 0, v |-> 0, w |-> 0, dV |-> 0, vup |-> 0, ov |-> 0, ow |-> 0,
           divzero |-> FALSE]

\* below -WFloor the countdown of w is no longer followed: such a w is far
\* under dt and 2*dt and compares with them like any smaller value
WFloor == MaxSteps * dt

CapBelow(x, floor) == IF x # NonFinite /\ x < floor THEN floor ELSE x

\* one invocation of the lif_step plan on an element with current jj; the
\* outputs (ov, ow) become the element's (v, w) of the next invocation
LifTake(jj, floor) ==
    LET dV == LifDV(jj, lv)
        vup == LifV(jj, lv, lw)
    IN  /\ lv' = LifOV(vup)
        /\ lw' = CapBelow(LifOW(vup, dV, lw), floor)
        /\ los' = LifOS(vup)
        /\ llast' = [j |-> jj, v |-> lv, w |-> lw, dV |-> dV, vup |-> vup,
                     ov |-> LifOV(vup), ow |-> LifOW(vup, dV, lw),
                     divzero |-> (Spiked(vup) /\ dV = 0)]
        /\ lk' = IF lk < MaxSteps THEN lk + 1 ELSE lk
        /\ ltick' = 1 - ltick

LifApply(jj) == LifTake(jj, NonFinite)

\* constant input current, MaxSteps invocations
LifStep ==
    /\ lmode = "const"
    /\ lk < MaxSteps
    /\ LifApply(lj)
    /\ UNCHANGED <<lj, lmode>>
    /\ UNCHANGED <<kvars, bvars>>

\* constant input current, invoked for ever
LifRun ==
    /\ lmode = "const"
    /\ LifTake(lj, -WFloor)
    /\ UNCHANGED <<lj, lmode>>
    /\ UNCHANGED <<kvars, bvars>>

\* input current chosen anew at every step
LifStepAny ==
    /\ lmode = "any"
    /\ lk < MaxStepsAny
    /\ \E jj \in JAny : lj' = jj /\ LifApply(jj)
    /\ UNCHANGED lmode
    /\ UNCHANGED <<kvars, bvars>>

\* ------------------------------------------------------- specifications
BuildIdle ==
    /\ inputs = EmptyDict
    /\ outputs = EmptyDict
    /\ parameters = EmptyDict
    /\ b_nel = 0
    /\ bpc = "off"
    /\ berr = "none"
    /\ base = NoBase
    /\ sparams = EmptyDict
    /\ uparams = EmptyDict
    /\ ivars = EmptyDict
    /\ ovars = EmptyDict
    /\ avars = <<>>
    /\ variables = {}
    /\ signature = <<>>
    /\ full_args = <<>>
    /\ gsize = <<>>
    /\ kernels = 0

KernelIdle ==
    /\ lengths = <<>>
    /\ n_elements = 0
    /\ phase = "off"
    /\ bdone = {}
    /\ outB = <<>>
    /\ writesB = EmptyBag
    /\ fdone = {}
    /\ item = Idle
    /\ outF = <<>>
    /\ writesF = EmptyBag
    /\ lenReads = {}

LifIdle ==
    /\ lmode = "off"
    /\ lj = 0
    /\ lv = 0
    /\ lw = 0
    /\ los = 0
    /\ lk = 0
    /\ llast = NoStep
    /\ ltick = 0

\* ------------------------------------------------------------ SpecBuild
\* the ways a caller can fill a dict with up to two of the names
PairSeqs(S, V) ==
    {<<>>} \cup {<<<<a, x>>>> : a \in S, x \in V}
           \cup {s \in {<<<<a, x>>, <<b, y>>>> : a \in S, b \in S, x \in V, y \in V} :
                    s[1][1] # s[2][1]}

InNames == {"v", "f"}

OutNames == {"ov", "v"}

ParNames == {"tau", "f"}

InitBuild ==
    /\ inputs \in {DictOf(s) : s \in PairSeqs(InNames, {CGood, CLen, CCnt, CMat})}
    /\ outputs \in {DictOf(s) : s \in PairSeqs(OutNames, {CGood, CLen})}
    /\ parameters \in {DictOf(s) : s \in PairSeqs(ParNames, {Scalar, CGood, CLen})}
    /\ b_nel \in {0, MaxChunk}
    /\ bpc = "call"
    /\ berr = "none"
    /\ base = NoBase
    /\ sparams = EmptyDict
    /\ uparams = EmptyDict
    /\ ivars = EmptyDict
    /\ ovars = EmptyDict
    /\ avars = <<>>
    /\ variables = {}
    /\ signature = <<>>
    /\ full_args = <<>>
    /\ gsize = <<>>
    /\ kernels = 0
    /\ KernelIdle
    /\ LifIdle

NextBuild == Classify \/ Resolve \/ Generate \/ Compile \/ Bind

SpecBuild == InitBuild /\ [][NextBuild]_vars

InitLif ==
    /\ lmode = "const"
    /\ lj \in JConst
    /\ lv = 0
    /\ lw = 0
    /\ los = 0
    /\ lk = 0
    /\ llast = NoStep
    /\ ltick = 0
    /\ KernelIdle
    /\ BuildIdle

SpecLif == InitLif /\ [][LifStep]_vars

SpecLifFair == InitLif /\ [][LifRun]_vars /\ WF_vars(LifRun)

InitLifAny ==
    /\ lmode = "any"
    /\ lj = 0
    /\ lv \in VInit
    /\ lw \in WInit
    /\ los = 0
    /\ lk = 0
    /\ llast = NoStep
    /\ ltick = 0
    /\ KernelIdle
    /\ BuildIdle

SpecLifAny == InitLifAny /\ [][LifStepAny]_vars

\* ----------------------------------------------------------- SpecKernel
LengthTables == UNION {[0 .. (k - 1) -> 0 .. MaxLen] : k \in 1 .. MaxN}

InitKernel ==
    /\ lengths \in LengthTables
    /\ n_elements = 0
    /\ phase = "blocked"
    /\ bdone = {}
    /\ outB = [p \in 0 .. (BufSize - 1) |-> Unwritten]
    /\ writesB = EmptyBag
    /\ fdone = {}
    /\ item = Idle
    /\ outF = [p \in 0 .. (BufSize - 1) |-> Unwritten]
    /\ writesF = EmptyBag
    /\ lenReads = {}
    /\ BuildIdle
    /\ LifIdle

NextKernel ==
    \/ \E m \in 0 .. (MaxLen - 1), n \in 0 .. (MaxN - 1) : BlockedItem(m, n)
    \/ \E c \in 1 .. MaxChunk : PlanFlattened(c)
    \/ \E gid \in 0 .. (MaxN * MaxLen - 1) : FlatBegin(gid)
    \/ FlatWalk
    \/ FlatIter

SpecKernel == InitKernel /\ [][NextKernel]_vars

\* ------------------------------------------------------------- claims
ValidPos == {Starts(n) + m : <<m, n>> \in {g \in BlockedGrid : g[1] < lengths[g[2]]}}

Expected == [p \in 0 .. (BufSize - 1) |-> Core(InBuf(p))]

\* C1: Blocked and Flattened plans leave identical output buffers
C1_StrategyEquivalence == FlatComplete => outF = outB

\* C2: the Flattened work items update every element exactly once
C2_FlatCoverage ==
    FlatComplete =>
        /\ \A p \in ValidPos : CopiesIn(p, writesF) = 1
        /\ BagToSet(writesF) \subseteq ValidPos

\* C3: Flattened items never read lengths[n] with n >= N and touch only
\*     positions start[n] + m with n < N, 0 <= m < length[n]
C3_FlatBoundary ==
    /\ lenReads \subseteq 0 .. (N - 1)
    /\ BagToSet(writesF) \subseteq ValidPos

\* collections handed to the call, by role
ValuesOf(d) == {d.val[k] : k \in KeySet(d)}

PassedCollections ==
    ValuesOf(inputs) \cup ValuesOf(outputs)
        \cup {c \in ValuesOf(parameters) : c.kind = "ragged"}

ReferenceInput == Items(inputs)[1][2]

Inconsistent(c) ==
    \/ Len(c.shape0s) # Len(ReferenceInput.shape0s)
    \/ c.shape0s # ReferenceInput.shape0s
    \/ \E i \in 1 .. Len(c.shape1s) : c.shape1s[i] # 1

PastResolution == bpc \in {"resolved", "generated", "compiled", "returned"}

\* C4: a call given a collection whose group count, group lengths or rank
\*     differ from the reference input fails before a kernel is compiled
\*     and returns no plan
C4_ShapeValidation ==
    (KeySet(inputs) # {} /\ \E c \in PassedCollections : Inconsistent(c))
        => (kernels = 0 /\ ~PastResolution)

NameCollision ==
    \/ KeySet(inputs) \cap KeySet(outputs) # {}
    \/ KeySet(inputs) \cap KeySet(parameters) # {}
    \/ KeySet(outputs) \cap KeySet(parameters) # {}

\* C5: a name used in two roles makes the call fail at layout resolution
\*     with the name-clash error; no kernel is built and no binding is
\*     silently replaced
C5_NameCollision ==
    NameCollision =>
        /\ ~PastResolution
        /\ kernels = 0
        /\ bpc = "failed" => berr \in {"AssertionError: Name clash", "AssertionError"}

\* C6: the buffers are bound in the order of the kernel's parameter list:
\*     same variable at every position, reads before writes, lengths last
C6_BindingOrder ==
    bpc = "returned" =>
        /\ full_args = signature
        /\ \A k \in 1 .. Cardinality(KeySet(ivars)) : full_args[k] \in KeySet(ivars)
        /\ \A k \in (Cardinality(KeySet(ivars)) + 1) .. (Len(full_args) - 1) :
              full_args[k] \in KeySet(ovars)
        /\ full_args[Len(full_args)] = "lengths"

\* C9: a Blocked work item (m, n) with m >= length[n] does nothing; every
\*     other item writes start[n] + m exactly once, no position is written
\*     twice, and once all items have run the output buffer is the same
\*     whatever order they ran in
C9_BlockedDispatch ==
    phase = "blocked" =>
        /\ \A p \in BagToSet(writesB) : p \in ValidPos /\ CopiesIn(p, writesB) = 1
        /\ \A g \in BlockedGrid :
              g[1] < lengths[g[2]] =>
                 LET p == Starts(g[2]) + g[1]
                 IN  IF g \in bdone
                     THEN outB[p] = Core(InBuf(p)) /\ CopiesIn(p, writesB) = 1
                     ELSE outB[p] = Unwritten /\ CopiesIn(p, writesB) = 0
        /\ BlockedComplete => outB = Expected

C9_Witness ==
    /\ phase = "blocked"
    /\ BlockedComplete
    /\ N = MaxN
    /\ \E n \in DOMAIN lengths : lengths[n] = 0
    /\ \E n \in DOMAIN lengths : 0 < lengths[n] /\ lengths[n] < MaxOf(lengths)
    /\ outB = Expected

\* what the claim and the code say about the step just taken
SpikeStepLaw ==
    /\ los = 1 <=> llast.vup > V_threshold
    /\ los = 1 =>
          /\ llast.ov = 0
          /\ lv = 0
          /\ llast.dV # 0
          /\ llast.ow = ref + dt - RoundDiv(dt * (llast.vup - V_threshold), llast.dV)
    /\ los # 1 => (los = 0 /\ llast.ow = llast.w - dt)

\* least margin j - V_threshold whose rounded voltage increment
\* (dt/tau)*(j - V_threshold) is one unit of precision
MinMargin ==
    CHOOSE d \in 0 .. tau :
        /\ RoundDiv(dt * d, tau) >= 1
        /\ \A e \in 0 .. (d - 1) : RoundDiv(dt * e, tau) < 1

StrongCurrent == lj - V_threshold >= MinMargin

\* C7 (as amended): with tau = 0.02, dt = 0.001, ref = 0.002 and v = w = 0
\*     at the start, a constant current whose increment (dt/tau)*(j - 1)
\*     is at least one unit of the voltage's precision eventually gives
\*     os = 1; os = 1 exactly at the steps whose updated voltage exceeds 1,
\*     there ov = 0 and ow = ref + dt - dt*(v' - 1)/dV, elsewhere
\*     ow = w - dt and os = 0
C7_SpikeLaw ==
    /\ []((lmode = "const" /\ lk >= 1) => SpikeStepLaw)
    /\ ((lmode = "const" /\ lk = 0 /\ StrongCurrent) ~> (los = 1))

C7_Witness ==
    /\ lmode = "const"
    /\ lj = V_threshold + V_threshold \div 2
    /\ los = 1
    /\ lk > 1
    /\ lv = 0
    /\ lw = llast.ow
    /\ lw > ref /\ lw < ref + dt

\* C7 (as stated): every constant current j > V_threshold eventually spikes
C7_AnyCurrentAboveThreshold ==
    /\ []((lmode = "const" /\ lk >= 1) => SpikeStepLaw)
    /\ ((lmode = "const" /\ lk = 0 /\ lj > V_threshold) ~> (los = 1))

\* a current above the threshold whose increment has rounded to zero while
\* the voltage is still at or below the threshold: the step then repeats
\* itself (only w keeps counting down), so no later step can spike
StalledBelowThreshold ==
    /\ lmode = "const"
    /\ lj > V_threshold
    /\ lk >= 1
    /\ los = 0
    /\ lv <= V_threshold
    /\ lw <= dt
    /\ LifDV(lj, lv) = 0

StallIsPermanent ==
    [][StalledBelowThreshold => (lv' = lv /\ los' = 0 /\ StalledBelowThreshold')]_vars

StallReached == StalledBelowThreshold /\ lk < MaxSteps \div 2

\* C8: with j = 0 and v = w = 0 at the start, after every k >= 1 steps
\*     v = 0, os = 0 and w has decreased by dt at each step
C8_ZeroInput ==
    (lmode = "const" /\ lj = 0 /\ lk >= 1) =>
        /\ lv = 0
        /\ los = 0
        /\ lw = llast.w - dt
        /\ lw = -(lk * dt)

C8_Witness == lmode = "const" /\ lj = 0 /\ lk = 100 /\ lw = -(100 * dt)

\* C10: started with v <= V_threshold and fed back, a step spikes only
\*      when dV > 0, every ov is within [0, V_threshold], and the overshoot
\*      is never computed with dV = 0, whatever the currents and w
C10_NoDivisionByZero ==
    (lmode = "any" /\ lk >= 1) =>
        /\ llast.v <= V_threshold
        /\ los = 1 => llast.dV > 0
        /\ 0 <= lv /\ lv <= V_threshold
        /\ ~llast.divzero
        /\ lw # NonFinite

C10_Witness ==
    /\ lmode = "any"
    /\ lk >= 2
    /\ llast.dV = 0
    /\ llast.vup = V_threshold
    /\ los = 0

====
